---------------------------- MODULE Spec2Model ----------------------------
(***************************************************************************)
(* A model of tle_retriever (src/src/main.rs): one run of main, from the   *)
(* logger set-up to the return, as a sequential state machine.             *)
(*                                                                         *)
(* Text that reaches the query string or the output file is a sequence of  *)
(* one-character strings, so joining, decimal formatting and line counting *)
(* are computed.  The field values a response carries are drawn from       *)
(* newline-free text (names and TLE lines); opaque values (user name,      *)
(* password, epoch, ...) are TLA+ strings.  Option<T> is a sequence of     *)
(* length at most one.                                                     *)
(***************************************************************************)
EXTENDS Naturals, Sequences, FiniteSets

(* ------------------------------ bounds -------------------------------- *)

\* Longest norad_ids list the settings file carries.
MaxIds == 2

\* Most elements in a response body.
MaxRecs == 2

(* ------------------------------ text ---------------------------------- *)

NL == "\n"

None == <<>>

Some(x) == <<x>>

Digits == <<"0", "1", "2", "3", "4", "5", "6", "7", "8", "9">>

RECURSIVE to_string(_)
\* u32::to_string: the decimal form, no sign, no leading zero.
to_string(n) ==
    IF n < 10 THEN <<Digits[n + 1]>>
    ELSE to_string(n \div 10) \o <<Digits[(n % 10) + 1]>>

RECURSIVE join_Dedup(_, _)
\* join, were the list deduplicated first: a piece equal to an earlier one
\* is left out.
join_Dedup(pieces, sep) ==
    LET keep == {k \in 1..Len(pieces) : \A m \in 1..(k - 1) : pieces[m] # pieces[k]}
    IN  IF pieces = <<>> THEN <<>>
        ELSE IF Cardinality(keep) = Len(pieces)
        THEN (IF Len(pieces) = 1 THEN pieces[1]
              ELSE pieces[1] \o sep \o join_Dedup(Tail(pieces), sep))
        ELSE LET d == CHOOSE k \in 1..Len(pieces) : k \notin keep
             IN  join_Dedup(SubSeq(pieces, 1, d - 1)
                            \o SubSeq(pieces, d + 1, Len(pieces)), sep)

RECURSIVE join(_, _)
\* [String]::join(sep): the pieces in order, sep between neighbours.
join(pieces, sep) ==
    IF pieces = <<>> THEN <<>>
    ELSE IF Len(pieces) = 1 THEN pieces[1]
    ELSE pieces[1] \o sep \o join(Tail(pieces), sep)

QueryPrefix == <<
    "h", "t", "t", "p", "s", ":", "/", "/", "w", "w", "w", ".", "s", "p",
    "a", "c", "e", "-", "t", "r", "a", "c", "k", ".", "o", "r", "g", "/",
    "b", "a", "s", "i", "c", "s", "p", "a", "c", "e", "d", "a", "t", "a",
    "/", "q", "u", "e", "r", "y", "/", "c", "l", "a", "s", "s", "/", "g",
    "p", "/", "N", "O", "R", "A", "D", "_", "C", "A", "T", "_", "I", "D", "/" >>

QuerySuffix == <<
    "/", "o", "r", "d", "e", "r", "b", "y", "/", "T", "L", "E", "_", "L",
    "I", "N", "E", "1", "%", "2", "0", "A", "S", "C", "/", "f", "o", "r",
    "m", "a", "t", "/", "j", "s", "o", "n" >>

LoginUrl == "https://www.space-track.org/ajaxauth/login"

Unknown == <<"U", "n", "k", "n", "o", "w", "n">>

(* --------------------------- command line ------------------------------ *)

\* What the command line can carry: --config (required) and --loglevel.
ArgVectors ==
    { [config |-> c, loglevel |-> l] :
        c \in {None, Some("settings")},
        l \in {None, Some("trace"), Some("verbose"), Some("INFO")} }

\* The match, were an unknown level to fall back to Info.
LevelFilterOf_Default(loglevel) ==
    CASE loglevel = "off"   -> Some("Off")
      [] loglevel = "error" -> Some("Error")
      [] loglevel = "warn"  -> Some("Warn")
      [] loglevel = "debug" -> Some("Debug")
      [] loglevel = "trace" -> Some("Trace")
      [] OTHER              -> Some("Info")

\* The match of lines 83-91: the level filter, or None for any other string.
LevelFilterOf(loglevel) ==
    CASE loglevel = "off"   -> Some("Off")
      [] loglevel = "error" -> Some("Error")
      [] loglevel = "warn"  -> Some("Warn")
      [] loglevel = "info"  -> Some("Info")
      [] loglevel = "debug" -> Some("Debug")
      [] loglevel = "trace" -> Some("Trace")
      [] OTHER              -> None

(* ----------------------------- settings -------------------------------- *)

SettingsFields ==
    { "username", "password", "norad_ids", "connection_timeout",
      "connection_read_timeout", "connection_retries", "output_filename",
      "output_directory" }

IdValues == {7, 25544}

IdLists == UNION { [1..n -> IdValues] : n \in 0..MaxIds }

RetryValues == {0, 3}

\* A well-formed settings table with the given ids and retry count.
GoodTable(ids, retries) ==
    [ username |-> [t |-> "ok", v |-> "user"],
      password |-> [t |-> "ok", v |-> "secret"],
      norad_ids |-> [t |-> "ok", v |-> ids],
      connection_timeout |-> [t |-> "ok", v |-> 30],
      connection_read_timeout |-> [t |-> "ok", v |-> 30],
      connection_retries |-> [t |-> "ok", v |-> retries],
      output_filename |-> [t |-> "ok", v |-> "tle.txt"],
      output_directory |-> [t |-> "ok", v |-> "out"] ]

\* The settings files of the model: not found, not parseable, or a table in
\* which at most one field is missing or holds a value of the wrong type.
ConfigFiles ==
    { [kind |-> "not_found"], [kind |-> "malformed"] }
    \cup { [kind |-> "table", fields |-> GoodTable(ids, r)] :
             ids \in IdLists, r \in RetryValues }
    \cup { [kind |-> "table",
            fields |-> [GoodTable(<<7>>, 0) EXCEPT ![f] = [t |-> k, v |-> 0]]] :
             f \in SettingsFields, k \in {"missing", "wrong_type"} }

\* Settings::new, were a missing field to take a default value.
Settings_new_Defaults(cfg) ==
    IF cfg.kind # "table" THEN None
    ELSE IF \E f \in SettingsFields : cfg.fields[f].t = "wrong_type" THEN None
    ELSE Some([f \in SettingsFields |->
                 IF cfg.fields[f].t = "ok" THEN cfg.fields[f].v
                 ELSE GoodTable(<<7>>, 0)[f].v])

\* Settings::new: the file is read and parsed, then deserialized into the
\* eight typed fields; any failure is an Err.  The result is Some(Settings)
\* or None.
Settings_new(cfg) ==
    IF cfg.kind # "table" THEN None
    ELSE IF \E f \in SettingsFields : cfg.fields[f].t # "ok" THEN None
    ELSE Some([f \in SettingsFields |-> cfg.fields[f].v])

(* --------------------------- response body ----------------------------- *)

Absent == [t |-> "absent"]

Null == [t |-> "null"]

JStr(s) == [t |-> "str", v |-> s]

RequiredKeys == {"NORAD_CAT_ID", "EPOCH", "REV_AT_EPOCH", "TLE_LINE1", "TLE_LINE2"}

\* A well-formed response element.
Element(name, n, l1, l2) ==
    [ OBJECT_NAME |-> name, OBJECT_ID |-> Null, NORAD_CAT_ID |-> JStr(n),
      EPOCH |-> JStr("2023-01-01T00:00:00"), REV_AT_EPOCH |-> JStr("1000"),
      TLE_LINE1 |-> JStr(l1), TLE_LINE2 |-> JStr(l2) ]

GoodElements ==
    { Element(JStr(<<"I", "S">>), "25544", <<"1", "a">>, <<"2", "a">>),
      Element(Null, "20580", <<"1", "b">>, <<"2", "b">>),
      Element(Absent, "25544", <<"1", "a">>, <<"2", "a">>),
      Element(JStr(<<>>), "7", <<"1", "b">>, <<"2", "b">>) }

\* Elements that lack one required key.
BadElements ==
    { [Element(JStr(<<"I", "S">>), "25544", <<"1", "a">>, <<"2", "a">>)
         EXCEPT ![k] = Absent] : k \in RequiredKeys }

Elements == GoodElements \cup BadElements

\* The bodies a non-error HTTP response can carry: a JSON array of elements,
\* or some other JSON value (the provider's error object).
Bodies ==
    { [array |-> FALSE, elems |-> <<>>] }
    \cup { [array |-> TRUE, elems |-> e] :
             e \in UNION { [1..n -> Elements] : n \in 0..MaxRecs } }

\* Deserialize of Option<String>: absent and null give None.
DecodeOption(jv) == IF jv.t = "str" THEN Some(jv.v) ELSE None

\* chrono's NaiveDateTime deserialization accepts the ISO form only.
IsDateTime(s) == s = "2023-01-01T00:00:00"

\* Whether one element deserializes into STResponse.
ElementDecodes(e) ==
    /\ \A k \in RequiredKeys : e[k].t = "str"
    /\ IsDateTime(e.EPOCH.v)

\* The STResponse an element deserializes into.
DecodeElement(e) ==
    [ object_name |-> DecodeOption(e.OBJECT_NAME),
      international_designator |-> DecodeOption(e.OBJECT_ID),
      norad_id |-> e.NORAD_CAT_ID.v,
      datetime |-> e.EPOCH.v,
      revolution_number |-> e.REV_AT_EPOCH.v,
      line_1 |-> e.TLE_LINE1.v,
      line_2 |-> e.TLE_LINE2.v ]

\* into_json, were it to keep the elements decoded before the first bad one.
into_json_Lenient(body) ==
    IF ~body.array THEN None
    ELSE LET good == {k \in 1..Len(body.elems) :
                        \A m \in 1..k : ElementDecodes(body.elems[m])}
         IN  Some([k \in 1..Cardinality(good) |-> DecodeElement(body.elems[k])])

\* response.into_json::<Vec<STResponse>>(): Some(records) when the body is an
\* array all of whose elements deserialize, None (an Err) otherwise.
into_json(body) ==
    IF ~body.array THEN None
    ELSE IF \E k \in 1..Len(body.elems) : ~ElementDecodes(body.elems[k]) THEN None
    ELSE Some([k \in 1..Len(body.elems) |-> DecodeElement(body.elems[k])])

\* unwrap_or, were the default the empty string.
unwrap_or_Empty(opt, default) == IF opt = None THEN <<>> ELSE opt[1]

\* Option::unwrap_or.
unwrap_or(opt, default) == IF opt = None THEN default ELSE opt[1]

(* ------------------------------- state --------------------------------- *)

VARIABLES
    cfgfile,   \* the settings file on disk
    fs0,       \* the file at the output path as it was before the run
    pc,        \* the position in main
    status,    \* "running", "ok" (exit status 0) or "err" (non-zero)
    failed,    \* the stage whose failure ended the run, or "none"
    lfilter,   \* the level filter of the logger
    matches,   \* the parsed command line
    settings,  \* Option<Settings>
    fs,        \* the file at the output path: [exists, content]
    file,      \* the LineWriter: [open, buf]
    query,     \* the query string
    sent,      \* the requests put on the wire, in order
    conn,      \* whether the HTTP connection (the response in hand) is open
    response,  \* Option<body>: the body of the response received
    sts,       \* the decoded records
    i,         \* the record the loop is at (1-based)
    j,         \* the write_all call within the record (1..6)
    trace      \* the stages performed so far, in order

vars == <<cfgfile, fs0, pc, status, failed, lfilter, matches, settings, fs, file, query,
          sent, conn, response, sts, i, j, trace>>

\* What the output path holds before the run.
InitialFiles ==
    { [exists |-> FALSE, content |-> <<>>],
      [exists |-> TRUE, content |-> <<"o", "l", "d", NL>>] }

Init ==
    /\ cfgfile \in ConfigFiles
    /\ fs0 \in InitialFiles
    /\ pc = "init_log"
    /\ status = "running"
    /\ failed = "none"
    /\ lfilter = "Off"
    /\ matches = [config |-> None, loglevel |-> None]
    /\ settings = None
    /\ fs = fs0
    /\ file = [open |-> FALSE, buf |-> <<>>]
    /\ query = <<>>
    /\ sent = <<>>
    /\ conn = FALSE
    /\ response = None
    /\ sts = <<>>
    /\ i = 1
    /\ j = 1
    /\ trace = <<>>

(* ----------------------------- LineWriter ------------------------------ *)

\* The index of the last newline of a byte string, 0 when it has none.
LastNewline(b) ==
    IF \E k \in 1..Len(b) : b[k] = NL
    THEN CHOOSE k \in 1..Len(b) : b[k] = NL /\ \A m \in (k + 1)..Len(b) : b[m] # NL
    ELSE 0

\* Leaving main, by return or by `?`: the response is dropped, and dropping
\* the LineWriter flushes what it still buffers (an error there is ignored)
\* and closes the file.  h and f are the writer and the file as the leaving
\* statement left them.
Leave(code, stage, h, f) ==
    /\ status' = code
    /\ failed' = stage
    /\ pc' = "done"
    /\ conn' = FALSE
    /\ \E flushed \in BOOLEAN :
         IF h.open /\ h.buf # <<>> /\ flushed
         THEN /\ fs' = [f EXCEPT !.content = @ \o h.buf]
              /\ file' = [open |-> FALSE, buf |-> <<>>]
         ELSE /\ fs' = f
              /\ file' = [open |-> FALSE, buf |-> h.buf]

\* `?`, were main to swallow the error and return Ok(()).
Abort_ExitZero(stage) == Leave("ok", stage, file, fs)

\* `?` on an Err: main returns the error, the process exits non-zero.
Abort(stage) == Leave("err", stage, file, fs)

(* ------------------------------ main ----------------------------------- *)

\* Lines 54-59: the console logger at level Info.
InitLogging ==
    /\ pc = "init_log"
    /\ UNCHANGED <<cfgfile, fs0>>
    /\ lfilter' = "Info"
    /\ pc' = "args"
    /\ trace' = Append(trace, "init_log")
    /\ UNCHANGED <<status, failed, matches, settings, fs, file, query, sent,
                   conn, response, sts, i, j>>

\* Lines 60-81: get_matches; without the required --config clap prints the
\* usage and exits the process with a non-zero status.
GetMatches ==
    /\ pc = "args"
    /\ UNCHANGED <<cfgfile, fs0>>
    /\ trace' = Append(trace, "args")
    /\ \E argv \in ArgVectors :
         IF argv.config = None
         THEN /\ Abort("usage")
              /\ UNCHANGED <<lfilter, matches, settings, query, sent, response,
                             sts, i, j>>
         ELSE /\ matches' = argv
              /\ pc' = "loglevel"
              /\ UNCHANGED <<status, failed, lfilter, settings, fs, file, query,
                             sent, conn, response, sts, i, j>>

\* Lines 82-100: a given --loglevel must name a level; the logger is then
\* reconfigured to it.
SetLogLevel ==
    /\ pc = "loglevel"
    /\ UNCHANGED <<cfgfile, fs0>>
    /\ trace' = Append(trace, "loglevel")
    /\ IF matches.loglevel # None /\ LevelFilterOf(matches.loglevel[1]) = None
       THEN /\ Abort("loglevel")
            /\ UNCHANGED <<lfilter, matches, settings, query, sent, response,
                           sts, i, j>>
       ELSE /\ lfilter' = IF matches.loglevel = None THEN lfilter
                          ELSE LevelFilterOf(matches.loglevel[1])[1]
            /\ pc' = "settings"
            /\ UNCHANGED <<status, failed, matches, settings, fs, file, query,
                           sent, conn, response, sts, i, j>>

\* Lines 101-103: Settings::new(config_file)?
LoadSettings ==
    /\ pc = "settings"
    /\ UNCHANGED <<cfgfile, fs0>>
    /\ trace' = Append(trace, "settings")
    /\ LET new == Settings_new(cfgfile)
       IN IF new = None
         THEN /\ Abort("settings")
              /\ UNCHANGED <<lfilter, matches, settings, query, sent, response,
                             sts, i, j>>
         ELSE /\ settings' = new
              /\ pc' = "create"
              /\ UNCHANGED <<status, failed, lfilter, matches, fs, file, query,
                             sent, conn, response, sts, i, j>>

\* FileCreate, were the file created only once there is something to
\* write: nothing happens here.
FileCreate_Deferred ==
    /\ pc = "create"
    /\ pc' = "query"
    /\ UNCHANGED <<cfgfile, fs0, status, failed, lfilter, matches, settings, fs,
                   file, query, sent, conn, response, sts, i, j, trace>>

\* FileCreate, were the file opened for appending instead of truncated.
FileCreate_Append ==
    /\ pc = "create"
    /\ UNCHANGED <<cfgfile, fs0>>
    /\ trace' = Append(trace, "create")
    /\ \E created \in BOOLEAN :
         IF ~created
         THEN /\ Abort("create")
              /\ UNCHANGED <<lfilter, matches, settings, query, sent, response,
                             sts, i, j>>
         ELSE /\ fs' = [exists |-> TRUE, content |-> fs.content]
              /\ file' = [open |-> TRUE, buf |-> <<>>]
              /\ pc' = "query"
              /\ UNCHANGED <<status, failed, lfilter, matches, settings, query,
                             sent, conn, response, sts, i, j>>

\* Lines 105-110: File::create(filename)? creates the file or truncates it,
\* and the handle is wrapped in a LineWriter.
FileCreate ==
    /\ pc = "create"
    /\ UNCHANGED <<cfgfile, fs0>>
    /\ trace' = Append(trace, "create")
    /\ \E created \in BOOLEAN :
         IF ~created
         THEN /\ Abort("create")
              /\ UNCHANGED <<lfilter, matches, settings, query, sent, response,
                             sts, i, j>>
         ELSE /\ fs' = [exists |-> TRUE, content |-> <<>>]
              /\ file' = [open |-> TRUE, buf |-> <<>>]
              /\ pc' = "query"
              /\ UNCHANGED <<status, failed, lfilter, matches, settings, query,
                             sent, conn, response, sts, i, j>>

\* Lines 112-115: the query string.
BuildQuery ==
    /\ pc = "query"
    /\ UNCHANGED <<cfgfile, fs0>>
    /\ trace' = Append(trace, "query")
    /\ LET ids == settings[1].norad_ids
           nids == join([k \in 1..Len(ids) |-> to_string(ids[k])], <<",">>)
       IN  query' = QueryPrefix \o nids \o QuerySuffix
    /\ pc' = "send"
    /\ UNCHANGED <<status, failed, lfilter, matches, settings, fs, file, sent,
                   conn, response, sts, i, j>>

\* SendForm, were a failed request sent again up to connection_retries times.
SendForm_Retry ==
    /\ pc = "send"
    /\ UNCHANGED <<cfgfile, fs0>>
    /\ trace' = Append(trace, "request")
    /\ sent' = Append(sent, [url |-> LoginUrl,
                             identity |-> settings[1].username,
                             password |-> settings[1].password,
                             query |-> query])
    /\ \/ /\ Len(sent) >= settings[1].connection_retries
          /\ \E err \in {"transport", "http_status"} : Abort(err)
          /\ UNCHANGED <<lfilter, matches, settings, query, response, sts,
                         i, j>>
       \/ /\ Len(sent) < settings[1].connection_retries
          /\ UNCHANGED <<status, failed, pc, lfilter, matches, settings, fs,
                         file, query, conn, response, sts, i, j>>
       \/ /\ \E body \in Bodies : response' = Some(body)
          /\ conn' = TRUE
          /\ pc' = "decode"
          /\ UNCHANGED <<status, failed, lfilter, matches, settings, fs, file,
                         query, sts, i, j>>

\* Lines 116-120: one POST of the form; a transport failure or an HTTP error
\* status is an Err and `?` returns it.
SendForm ==
    /\ pc = "send"
    /\ UNCHANGED <<cfgfile, fs0>>
    /\ trace' = Append(trace, "request")
    /\ sent' = Append(sent, [url |-> LoginUrl,
                             identity |-> settings[1].username,
                             password |-> settings[1].password,
                             query |-> query])
    /\ \/ /\ \E err \in {"transport", "http_status"} : Abort(err)
          /\ UNCHANGED <<lfilter, matches, settings, query, response, sts,
                         i, j>>
       \/ /\ \E body \in Bodies : response' = Some(body)
          /\ conn' = TRUE
          /\ pc' = "decode"
          /\ UNCHANGED <<status, failed, lfilter, matches, settings, fs, file,
                         query, sts, i, j>>

\* IntoJson, were the connection kept open after the body is read.
IntoJson_Leak ==
    /\ pc = "decode"
    /\ UNCHANGED <<cfgfile, fs0>>
    /\ trace' = Append(trace, "decode")
    /\ IF into_json(response[1]) = None
       THEN /\ Abort("decode")
            /\ UNCHANGED <<lfilter, matches, settings, query, sent, response,
                           sts, i, j>>
       ELSE /\ sts' = into_json(response[1])[1]
            /\ conn' = conn
            /\ i' = 1
            /\ j' = 1
            /\ pc' = "loop"
            /\ UNCHANGED <<status, failed, lfilter, matches, settings, fs, file,
                           query, sent, response>>

\* Line 121: the body is read to its end and decoded as a whole; the response
\* is consumed, which releases the connection.
IntoJson ==
    /\ pc = "decode"
    /\ UNCHANGED <<cfgfile, fs0>>
    /\ trace' = Append(trace, "decode")
    /\ IF into_json(response[1]) = None
       THEN /\ Abort("decode")
            /\ UNCHANGED <<lfilter, matches, settings, query, sent, response,
                           sts, i, j>>
       ELSE /\ sts' = into_json(response[1])[1]
            /\ conn' = FALSE
            /\ i' = 1
            /\ j' = 1
            /\ pc' = "loop"
            /\ UNCHANGED <<status, failed, lfilter, matches, settings, fs, file,
                           query, sent, response>>

\* Lines 123-131: what the j-th write_all of the loop body is given.
Piece(resp, k) ==
    CASE k = 1 -> unwrap_or(resp.object_name, Unknown)
      [] k = 3 -> resp.line_1
      [] k = 5 -> resp.line_2
      [] OTHER -> <<NL>>

\* Lines 122-132: one write_all of the loop.  The LineWriter buffers bytes
\* that hold no newline; bytes up to the last newline are written through to
\* the file, directly when the buffer is empty and after joining the buffer
\* otherwise, and a failed write is an Err that `?` returns.
WriteAll ==
    /\ pc = "loop"
    /\ UNCHANGED <<cfgfile, fs0>>
    /\ i <= Len(sts)
    /\ trace' = Append(trace, "write")
    /\ LET data == Piece(sts[i], j)
           cut == LastNewline(data)
           lines == SubSeq(data, 1, cut)
           tail == SubSeq(data, cut + 1, Len(data))
       IN  IF cut = 0
           THEN /\ file' = [file EXCEPT !.buf = @ \o data]
                /\ UNCHANGED <<status, failed, pc, conn, fs>>
           ELSE \E written \in BOOLEAN :
                  IF written
                  THEN /\ fs' = [fs EXCEPT !.content = @ \o file.buf \o lines]
                       /\ file' = [file EXCEPT !.buf = tail]
                       /\ UNCHANGED <<status, failed, pc, conn>>
                  ELSE Leave("err", "write",
                             [file EXCEPT !.buf = IF @ = <<>> THEN <<>>
                                                  ELSE @ \o lines],
                             fs)
    /\ IF pc' = "loop"
       THEN /\ j' = IF j = 6 THEN 1 ELSE j + 1
            /\ i' = IF j = 6 THEN i + 1 ELSE i
       ELSE UNCHANGED <<i, j>>
    /\ UNCHANGED <<lfilter, matches, settings, query, sent, response, sts>>

\* Lines 133-134: Ok(()) once every record is written; the locals are dropped.
Return ==
    /\ pc = "loop"
    /\ UNCHANGED <<cfgfile, fs0>>
    /\ i > Len(sts)
    /\ trace' = Append(trace, "return")
    /\ Leave("ok", "none", file, fs)
    /\ UNCHANGED <<lfilter, matches, settings, query, sent, response, sts,
                   i, j>>

Next ==
    \/ InitLogging
    \/ GetMatches
    \/ SetLogLevel
    \/ LoadSettings
    \/ FileCreate
    \/ BuildQuery
    \/ SendForm
    \/ IntoJson
    \/ WriteAll
    \/ Return

Spec == Init /\ [][Next]_vars

\* main is one thread of blocking calls, each of which returns.
FairSpec == Spec /\ WF_vars(Next)

(* ------------------------- vocabulary of the claims -------------------- *)

\* The stage has been performed (or attempted) in this run.
Did(stage) == \E k \in 1..Len(trace) : trace[k] = stage

\* How often the stage has been performed.
Count(stage) == Cardinality({k \in 1..Len(trace) : trace[k] = stage})

\* Every occurrence of stage b comes after an occurrence of stage a.
Precedes(a, b) ==
    \A k \in 1..Len(trace) :
        trace[k] = b => \E m \in 1..(k - 1) : trace[m] = a

\* The output path holds what it held before the run.
Untouched == fs = fs0 /\ ~Did("create") /\ ~file.open

NewlineCount(b) == Cardinality({k \in 1..Len(b) : b[k] = NL})

\* The position of the n-th newline of b (0 for n = 0).
NthNewline(b, n) ==
    IF n = 0 THEN 0
    ELSE CHOOSE k \in 1..Len(b) :
           b[k] = NL /\ Cardinality({m \in 1..k : b[m] = NL}) = n

\* The n-th line of b, without its terminator.
LineOf(b, n) == SubSeq(b, NthNewline(b, n - 1) + 1, NthNewline(b, n) - 1)

\* The name a record is to be listed under.
ListedName(r) == IF r.object_name = None THEN Unknown ELSE r.object_name[1]

RECURSIVE Serialization(_)
\* The three-line text form of a sequence of records.
Serialization(recs) ==
    IF recs = <<>> THEN <<>>
    ELSE ListedName(recs[1]) \o <<NL>> \o recs[1].line_1 \o <<NL>>
         \o recs[1].line_2 \o <<NL>> \o Serialization(Tail(recs))

IsPrefix(a, b) == Len(a) <= Len(b) /\ a = SubSeq(b, 1, Len(a))

EndsLines(b) == b = <<>> \/ b[Len(b)] = NL

(* ------------------------------- C1 ------------------------------------ *)

\* C1: whatever connection_retries is, a run puts at most one request on the
\* wire, exactly one once the fetch stage is reached, and a transport
\* failure of that request ends the run with no second request.
C1_SingleRequest ==
    /\ Len(sent) <= 1
    /\ Count("request") <= 1
    /\ (pc \in {"decode", "loop"} \/ status = "ok") => Len(sent) = 1
    /\ failed \in {"transport", "http_status", "decode", "write"} => Len(sent) = 1
    /\ failed = "transport" => status = "err" /\ pc = "done" /\ Len(sent) = 1
    /\ pc \in {"init_log", "args", "loglevel", "settings", "create", "query", "send"}
         => sent = <<>>

C1_Witness ==
    /\ failed = "transport"
    /\ settings # None
    /\ settings[1].connection_retries = 3
    /\ Len(sent) = 1

(* ------------------------------- C2 ------------------------------------ *)

Undecodable(body) ==
    \/ ~body.array
    \/ \E k \in 1..Len(body.elems) :
         \E key \in {"NORAD_CAT_ID", "EPOCH", "REV_AT_EPOCH", "TLE_LINE1", "TLE_LINE2"} :
            body.elems[k][key].t = "absent"

\* C3: once the decode of such a body has been attempted the run has aborted
\* at the decode, no record was kept and nothing was written to the file.
C3_NoPartialDecode ==
    (response # None /\ Undecodable(response[1]) /\ Did("decode")) =>
        /\ status = "err"
        /\ failed = "decode"
        /\ sts = <<>>
        /\ ~Did("write")
        /\ fs.content = <<>>

C3_Witness ==
    /\ failed = "decode"
    /\ response[1].array
    /\ Len(response[1].elems) = 2
    /\ ElementDecodes(response[1].elems[1])
    /\ response[1].elems[2].TLE_LINE2.t = "absent"
    /\ fs.content = <<>>

(* ------------------------------- C4 ------------------------------------ *)

PrefixTail == <<
    "/", "c", "l", "a", "s", "s", "/", "g", "p", "/", "N", "O", "R", "A",
    "D", "_", "C", "A", "T", "_", "I", "D", "/" >>

SuffixText == <<
    "/", "o", "r", "d", "e", "r", "b", "y", "/", "T", "L", "E", "_", "L",
    "I", "N", "E", "1", "%", "2", "0", "A", "S", "C", "/", "f", "o", "r",
    "m", "a", "t", "/", "j", "s", "o", "n" >>

IsDecimal(t) ==
    /\ t # <<>>
    /\ \A k \in 1..Len(t) : \E d \in 1..10 : Digits[d] = t[k]
    /\ Len(t) > 1 => t[1] # "0"

RECURSIVE DecimalValue(_)
\* The number a decimal numeral denotes.
DecimalValue(t) ==
    IF t = <<>> THEN 0
    ELSE 10 * DecimalValue(SubSeq(t, 1, Len(t) - 1))
         + ((CHOOSE d \in 1..10 : Digits[d] = t[Len(t)]) - 1)

RECURSIVE SplitCommas(_)
\* The comma-separated fields of a text, in order.
SplitCommas(t) ==
    IF \E k \in 1..Len(t) : t[k] = ","
    THEN LET c == CHOOSE k \in 1..Len(t) :
                    t[k] = "," /\ \A m \in 1..(k - 1) : t[m] # ","
         IN  <<SubSeq(t, 1, c - 1)>> \o SplitCommas(SubSeq(t, c + 1, Len(t)))
    ELSE <<t>>

\* C4: the query of the request sent is the fixed prefix, which ends in
\* /class/gp/NORAD_CAT_ID/, then the ids of a non-empty norad_ids as decimal
\* numerals, comma-separated, in the order and multiplicity given, then the
\* fixed suffix.
C4_QueryKeepsIds ==
    \A n \in 1..Len(sent) :
        LET q == sent[n].query
            ids == settings[1].norad_ids
            mid == SubSeq(q, Len(QueryPrefix) + 1, Len(q) - Len(SuffixText))
            fields == SplitCommas(mid)
        IN  ids # <<>> =>
              /\ Len(q) >= Len(QueryPrefix) + Len(SuffixText)
              /\ SubSeq(q, 1, Len(QueryPrefix)) = QueryPrefix
              /\ SubSeq(QueryPrefix, Len(QueryPrefix) - Len(PrefixTail) + 1,
                        Len(QueryPrefix)) = PrefixTail
              /\ SubSeq(q, Len(q) - Len(SuffixText) + 1, Len(q)) = SuffixText
              /\ Len(fields) = Len(ids)
              /\ \A k \in 1..Len(ids) :
                   IsDecimal(fields[k]) /\ DecimalValue(fields[k]) = ids[k]

C4_Witness ==
    /\ Len(sent) = 1
    /\ settings[1].norad_ids = <<25544, 7>>

(* ------------------------------- C5 ------------------------------------ *)

LevelNames == {"off", "error", "warn", "info", "debug", "trace"}

\* C5: once the check of a --loglevel that names no level has run, the run
\* has ended in error with the settings not loaded, the output path as it
\* was and no request sent.
C5_BadLogLevelStopsFirst ==
    (matches.loglevel # None /\ matches.loglevel[1] \notin LevelNames
       /\ Did("loglevel")) =>
        /\ status = "err"
        /\ failed = "loglevel"
        /\ ~Did("settings")
        /\ settings = None
        /\ Untouched
        /\ sent = <<>>

C5_Witness ==
    /\ failed = "loglevel"
    /\ matches.loglevel = Some("verbose")
    /\ fs0.exists
    /\ fs = fs0

(* ------------------------------- C6 ------------------------------------ *)

\* The settings file cannot be loaded into Settings.
Unloadable(cfg) ==
    \/ cfg.kind \in {"not_found", "malformed"}
    \/ /\ cfg.kind = "table"
       /\ \E f \in SettingsFields : cfg.fields[f].t \in {"missing", "wrong_type"}

\* C6: once the load of such a file has been attempted the run has ended in
\* error with no request sent and the output path as it was.
C6_BadSettingsStopBeforeNetwork ==
    (Unloadable(cfgfile) /\ Did("settings")) =>
        /\ status = "err"
        /\ failed = "settings"
        /\ sent = <<>>
        /\ ~Did("request")
        /\ Untouched

C6_Witness ==
    /\ failed = "settings"
    /\ cfgfile.kind = "table"
    /\ cfgfile.fields.connection_retries.t = "wrong_type"
    /\ fs0.exists
    /\ fs = fs0

(* ------------------------------- C7 ------------------------------------ *)

\* The stage a failure belongs to, as the trace names it.
StageOfFailure ==
    CASE failed = "usage" -> "args"
      [] failed \in {"transport", "http_status"} -> "request"
      [] OTHER -> failed

\* The stages of a run in the order main performs them.
StageRank(stage) ==
    CASE stage = "init_log" -> 0
      [] stage = "args" -> 1
      [] stage = "loglevel" -> 2
      [] stage = "settings" -> 3
      [] stage = "create" -> 4
      [] stage = "query" -> 5
      [] stage = "request" -> 6
      [] stage = "decode" -> 7
      [] stage = "write" -> 8
      [] stage = "return" -> 9

C7_State ==
    /\ status = "err" <=> failed # "none"
    /\ status # "running" <=> pc = "done"
    /\ \A k \in 1..(Len(trace) - 1) : StageRank(trace[k]) <= StageRank(trace[k + 1])
    /\ status = "err" =>
         /\ trace[Len(trace)] = StageOfFailure
         /\ \A k \in 1..Len(trace) : StageRank(trace[k]) <= StageRank(StageOfFailure)
    /\ status = "ok" =>
         /\ \A stage \in {"args", "loglevel", "settings", "create", "query",
                          "request", "decode", "return"} : Count(stage) = 1
         /\ Count("write") = 6 * Len(sts)
         /\ fs.content = Serialization(sts)

C8_CreateAfterFetch == Precedes("request", "create") /\ Precedes("decode", "create")

\* C8, amended: the file is created after the settings are loaded and before
\* the request: settings, create, query, request, decode, write, return.
C8_CreateBeforeFetch ==
    /\ Precedes("settings", "create")
    /\ Precedes("create", "query")
    /\ Precedes("query", "request")
    /\ Precedes("request", "decode")
    /\ Precedes("decode", "write")
    /\ Precedes("decode", "return")
    /\ Did("request") => fs.exists
    /\ Count("create") <= 1

C8_Witness ==
    /\ pc = "loop"
    /\ i = 1
    /\ j = 2
    /\ fs.exists
    /\ Did("request")

(* ------------------------------- C9 ------------------------------------ *)

\* C9 as stated: the file handle and the connection are never open together,
\* and a normal exit has released both with everything flushed.
C9_NeverBothOpen ==
    /\ ~(file.open /\ conn)
    /\ status = "ok" => ~file.open /\ ~conn /\ file.buf = <<>>

\* C9, amended: at most one file handle and one connection are opened; the
\* connection is open only between the request and the decode, while the
\* file handle is open; a normal exit has released both with every byte
\* written.
C9_ConnectionInsideFile ==
    /\ Count("create") <= 1
    /\ Count("request") <= 1
    /\ conn => file.open /\ pc = "decode"
    /\ file.open => Did("create") /\ status = "running"
    /\ status = "ok" =>
         /\ ~file.open
         /\ ~conn
         /\ file.buf = <<>>
         /\ fs.content = Serialization(sts)

C9_Witness ==
    /\ conn
    /\ file.open
    /\ pc = "decode"

(* ------------------------------- C10 ----------------------------------- *)

=============================================================================
